---- MODULE Spec2Model ----
(***************************************************************************)
(* Model of src/main.py: the Substack and Beehiiv article extractors, the  *)
(* single-article endpoint and the batch endpoint.                         *)
(*                                                                         *)
(* A Python string is a sequence of tokens.  The tokens SP, NL, TEE, COMMA *)
(* and AMP_ENTITY are the characters (or the entity) the code treats       *)
(* specially; every other token stands for a run of ordinary characters    *)
(* that holds none of them.  A Python value is a record tagged by its      *)
(* field k ("null", "str", "int", "list", "dict").                         *)
(***************************************************************************)
EXTENDS Integers, Sequences, FiniteSets, TLC

VARIABLES platform, soup, calls,
          urls, summarize, idx, results, fetches, batch_response,
          url, response

vars == <<platform, soup, calls, urls, summarize, idx, results, fetches,
          batch_response, url, response>>

----------------------------------------------------------------------------
(* Python values *)

SP == " "
NL == "\n"
TEE == "T"
COMMA == ","
AMP_ENTITY == "&amp;"
AMP == "&"

PyNone == [k |-> "null"]
PyStr(s) == [k |-> "str", s |-> s]
PyInt(n) == [k |-> "int", n |-> n]
PyList(items) == [k |-> "list", items |-> items]
PyDict(f) == [k |-> "dict", f |-> f]

EmptyMap == [key \in {} |-> PyNone]
Entry(key, v) == [x \in {key} |-> v]
Merge(f, g) == [key \in (DOMAIN f) \cup (DOMAIN g) |-> IF key \in DOMAIN g THEN g[key] ELSE f[key]]

Truthy(v) ==
    CASE v.k = "null" -> FALSE
      [] v.k = "str" -> v.s # <<>>
      [] v.k = "int" -> v.n # 0
      [] v.k = "list" -> v.items # <<>>
      [] v.k = "dict" -> DOMAIN v.f # {}

\* dict.get(key, default) of a value known to be a dict
DictGet(d, key, default) == IF key \in DOMAIN d.f THEN d.f[key] ELSE default

IsSpace(c) == c \in {SP, NL}

RECURSIVE lstrip(_)
lstrip(s) == IF s = <<>> THEN <<>> ELSE IF IsSpace(Head(s)) THEN lstrip(Tail(s)) ELSE s

RECURSIVE rstrip(_)
rstrip(s) == IF s = <<>> THEN <<>> ELSE IF IsSpace(s[Len(s)]) THEN rstrip(SubSeq(s, 1, Len(s) - 1)) ELSE s

strip(s) == rstrip(lstrip(s))

\* str.replace(old, new) for a one-character old
replace(s, old, new) == IF s = <<>> THEN <<>> ELSE [i \in 1..Len(s) |-> IF s[i] = old THEN new ELSE s[i]]

\* str.split(sep): the list of the parts between the separators (never empty)
RECURSIVE split(_, _)
split(s, sep) ==
    IF s = <<>> THEN << <<>> >>
    ELSE IF Head(s) = sep THEN << <<>> >> \o split(Tail(s), sep)
    ELSE LET rest == split(Tail(s), sep)
         IN  << <<Head(s)>> \o Head(rest) >> \o Tail(rest)

\* sep.join(parts)
RECURSIVE join(_, _)
join(parts, sep) ==
    IF parts = <<>> THEN <<>>
    ELSE IF Len(parts) = 1 THEN Head(parts)
    ELSE Head(parts) \o sep \o join(Tail(parts), sep)

\* Tag.get_text(strip=True): every text node stripped, the empty ones dropped,
\* the rest concatenated with the empty separator
RECURSIVE get_text_strip(_)
get_text_strip(texts) ==
    IF texts = <<>> THEN <<>> ELSE strip(Head(texts)) \o get_text_strip(Tail(texts))

\* len(text.split()): the number of maximal runs of non-whitespace
RECURSIVE count_words(_, _)
count_words(s, inword) ==
    IF s = <<>> THEN 0
    ELSE IF IsSpace(Head(s)) THEN count_words(Tail(s), FALSE)
    ELSE (IF inword THEN 0 ELSE 1) + count_words(Tail(s), TRUE)

\* text.count('\n\n'): non-overlapping occurrences, left to right
RECURSIVE count_nlnl(_)
count_nlnl(s) ==
    IF Len(s) < 2 THEN 0
    ELSE IF s[1] = NL /\ s[2] = NL THEN 1 + count_nlnl(SubSeq(s, 3, Len(s)))
    ELSE count_nlnl(Tail(s))

\* round(n / 200): Python rounds halves to the even neighbour
round_div200(n) ==
    LET q == n \div 200
        r == n % 200
    IN  IF r < 100 THEN q
        ELSE IF r > 100 THEN q + 1
        ELSE IF q % 2 = 0 THEN q ELSE q + 1

Max(a, b) == IF a >= b THEN a ELSE b

DigitTok(d) ==
    CASE d = 0 -> "0" [] d = 1 -> "1" [] d = 2 -> "2" [] d = 3 -> "3" [] d = 4 -> "4"
      [] d = 5 -> "5" [] d = 6 -> "6" [] d = 7 -> "7" [] d = 8 -> "8" [] d = 9 -> "9"

RECURSIVE Digits(_)
Digits(n) == IF n < 10 THEN <<DigitTok(n)>> ELSE Digits(n \div 10) \o <<DigitTok(n % 10)>>

\* the text an f-string puts for a value (str() of it); containers are not
\* spelled out, their text is one opaque token
PyFormat(v) ==
    CASE v.k = "str" -> v.s
      [] v.k = "null" -> <<"None">>
      [] v.k = "int" -> Digits(v.n)
      [] OTHER -> <<"<repr>">>

\* html.unescape, on the one entity of the alphabet
unescape(s) == replace(s, AMP_ENTITY, AMP)

Take(s, n) == SubSeq(s, 1, IF Len(s) < n THEN Len(s) ELSE n)

----------------------------------------------------------------------------
(* Exceptions and results *)

Exc(type, msg) == [type |-> type, msg |-> msg]
Raise(e) == [raised |-> TRUE, exc |-> e]
Return(v) == [raised |-> FALSE, value |-> v]

JSONDecodeError == Exc("JSONDecodeError", <<"Expecting value">>)
LoadsTypeError == Exc("TypeError", <<"the JSON object must be str, bytes or bytearray, not NoneType">>)
NoGetError == Exc("AttributeError", <<"object has no attribute 'get'">>)
NoSplitError == Exc("AttributeError", <<"object has no attribute 'split'">>)

----------------------------------------------------------------------------
(* The parsed document (BeautifulSoup).  One slot for each element a       *)
(* selector of the code looks for.  A meta or link tag carries the value   *)
(* of its content (href) attribute, the empty string when it has none.  An *)
(* element carries its text nodes and whether it lies inside a clutter     *)
(* element of div.body.markup (the elements line 150-156 remove).  A       *)
(* container carries its p, h1, h2, h3, li descendants in document order.  *)

NoTag == [present |-> FALSE]
Meta(content) == [present |-> TRUE, content |-> content]
El(texts, clutter) == [present |-> TRUE, texts |-> texts, clutter |-> clutter]
Block(tag, texts, clutter) == [tag |-> tag, texts |-> texts, clutter |-> clutter]
Container(blocks) == [present |-> TRUE, blocks |-> blocks]

NoString == [text |-> "none"]
InvalidJson == [text |-> "invalid"]
JsonText(v) == [text |-> "json", value |-> v]
Script(string) == [present |-> TRUE, string |-> string]

\* json.loads(script_tag.string)
json_loads(string) ==
    CASE string.text = "none" -> Raise(LoadsTypeError)
      [] string.text = "invalid" -> Raise(JSONDecodeError)
      [] string.text = "json" -> Return(string.value)

\* meta.get("content") is truthy
HasContent(m) == m.present /\ m.content # <<>>

AuthorDefault == PyStr(<<"Author not found">>)
PublicationDefault == PyStr(<<"Publication not found">>)
TitleDefault == PyStr(<<"Title not found">>)
BeehiivPublicationDefault == PyStr(<<"beehiiv">>)

SubstackBlockTags == {"p", "h3", "li"}
BeehiivBlockTags == {"p", "h1", "h2", "h3", "li"}

----------------------------------------------------------------------------
(* compute_stats, extract_extra_metadata, generate_prompt_templates *)

compute_stats(text) ==
    LET word_count == count_words(text, FALSE)
    IN  [word_count |-> PyInt(word_count),
         paragraph_count |-> PyInt(count_nlnl(text)),
         reading_time_minutes |-> PyInt(Max(1, round_div200(word_count)))]

RECURSIVE strip_nonempty(_)
strip_nonempty(parts) ==
    IF parts = <<>> THEN <<>>
    ELSE (IF strip(Head(parts)) # <<>> THEN <<PyStr(strip(Head(parts)))>> ELSE <<>>)
         \o strip_nonempty(Tail(parts))

extract_extra_metadata(s) ==
    LET tags == IF HasContent(s.keywords) THEN strip_nonempty(split(s.keywords.content, COMMA)) ELSE <<>>
        canonical == IF HasContent(s.canonical) THEN PyStr(s.canonical.content)
                     ELSE IF HasContent(s.og_url) THEN PyStr(s.og_url.content)
                     ELSE PyNone
        category == IF HasContent(s.category) THEN PyStr(s.category.content)
                    ELSE IF tags # <<>> THEN tags[1]
                    ELSE PyNone
    IN  [canonical_url |-> canonical, tags |-> PyList(tags), newsletter_category |-> category]

PromptLimit == 10000

generate_prompt_templates(data) ==
    LET title == PyFormat(IF "article_title" \in DOMAIN data THEN data["article_title"] ELSE PyStr(<<"Untitled">>))
        full_text == unescape(Take(IF "full_text" \in DOMAIN data THEN data["full_text"].s ELSE <<>>, PromptLimit))
    IN  PyDict([summarization |-> PyStr(<<"Summarize the following newsletter titled '">> \o title \o <<"':", NL, NL>> \o full_text),
                tweet_thread |-> PyStr(<<"Write a 5-7 tweet thread summarizing the newsletter '">> \o title \o <<"':", NL, NL>> \o full_text),
                reply_comment |-> PyStr(<<"Write a friendly, thoughtful comment to leave on this newsletter:", NL, NL>> \o full_text),
                idea_extraction |-> PyStr(<<"Extract 5 content/post ideas from this newsletter:", NL, NL>> \o full_text),
                quotes |-> PyStr(<<"Extract 5 impactful or shareable quotes from the newsletter titled '">> \o title \o <<"':", NL, NL>> \o full_text)])

\* lines 161-171 and 205-215: the record the extractors return
article_data(publication, title, subtitle, author, publication_date, full_text, s) ==
    LET data == Merge(Merge([publication_name |-> publication,
                             article_title |-> title,
                             article_subtitle |-> subtitle,
                             author |-> author,
                             publication_date |-> publication_date,
                             full_text |-> PyStr(full_text)],
                            compute_stats(full_text)),
                      extract_extra_metadata(s))
    IN  Merge(data, Entry("prompt_templates", generate_prompt_templates(data)))

\* text_blocks without the replace('\n', ' ') of lines 158 and 202
RECURSIVE text_blocks_keep_newlines(_, _)
text_blocks_keep_newlines(blocks, tags) ==
    IF blocks = <<>> THEN <<>>
    ELSE LET el == Head(blocks)
         IN  (IF el.tag \in tags /\ get_text_strip(el.texts) # <<>>
              THEN <<get_text_strip(el.texts)>>
              ELSE <<>>)
             \o text_blocks_keep_newlines(Tail(blocks), tags)

\* [el.get_text(strip=True).replace('\n', ' ') for el in ... if el.get_text(strip=True)]
RECURSIVE text_blocks(_, _)
text_blocks(blocks, tags) ==
    IF blocks = <<>> THEN <<>>
    ELSE LET el == Head(blocks)
         IN  (IF el.tag \in tags /\ get_text_strip(el.texts) # <<>>
              THEN <<replace(get_text_strip(el.texts), NL, SP)>>
              ELSE <<>>)
             \o text_blocks(Tail(blocks), tags)

join_blocks(blocks) == join(blocks, <<NL, NL>>)

----------------------------------------------------------------------------
(* _scrape_substack_article *)

\* lines 107-112: the NewsArticle node; an exception leaves what was assigned
substack_news_article(item, acc) ==
    LET a == DictGet(item, "author", PyDict(EmptyMap))
    IN  IF a.k # "dict" THEN acc
        ELSE LET acc1 == [acc EXCEPT !.author = DictGet(a, "name", acc.author)]
                 p == DictGet(item, "publisher", PyDict(EmptyMap))
             IN  IF p.k # "dict" THEN acc1
                 ELSE LET d == DictGet(item, "datePublished", acc.publication_date)
                          acc2 == [acc1 EXCEPT !.publication = DictGet(p, "name", acc.publication),
                                               !.publication_date = d]
                      IN  IF ~Truthy(d) THEN acc2
                          ELSE IF d.k # "str" THEN acc2
                          ELSE [acc2 EXCEPT !.publication_date = PyStr(Head(split(d.s, TEE)))]

\* lines 105-112: the loop over json_data['@graph']
RECURSIVE substack_graph(_, _)
substack_graph(items, acc) ==
    IF items = <<>> THEN acc
    ELSE LET item == Head(items)
         IN  IF item.k # "dict" THEN acc
             ELSE IF DictGet(item, "@type", PyNone) = PyStr(<<"NewsArticle">>)
                  THEN substack_news_article(item, acc)
                  ELSE substack_graph(Tail(items), acc)

\* lines 99-114: every exception of the block is swallowed (line 113)
substack_ld(s) ==
    LET acc == [author |-> AuthorDefault, publication |-> PublicationDefault, publication_date |-> PyNone]
    IN  IF ~s.script.present THEN acc
        ELSE LET r == json_loads(s.script.string)
             IN  IF r.raised THEN acc
                 ELSE IF r.value.k # "dict" THEN acc
                 ELSE IF "@graph" \notin DOMAIN r.value.f THEN acc
                 ELSE IF r.value.f["@graph"].k # "list" THEN acc
                 ELSE substack_graph(r.value.f["@graph"].items, acc)

IsKept(b) == ~b.clutter
Drop(e) == IF e.present /\ e.clutter THEN NoTag ELSE e

\* lines 150-156: el.decompose() of every clutter element of the container
decompose_clutter(s) ==
    [s EXCEPT !.byline = Drop(@), !.pub = Drop(@), !.date_container = Drop(@),
              !.post_title = Drop(@), !.subtitle = Drop(@),
              !.h1 = Drop(@), !.author_link = Drop(@),
              !.body = Container(SelectSeq(@.blocks, IsKept))]

SubstackErrorPlatform == "Beehiiv"
BeehiivErrorPlatform == "Beehiiv"

\* lines 174-175 and 218-219
ParseFailure(name, e) == Exc("ValueError", <<"Failed to parse ", name, " article. Error: ">> \o e.msg)

BodyNotFound == Exc("ValueError", <<"Main content body not found.">>)
\* the message of line 200, without its backquotes
ProseNotFound == Exc("ValueError", <<"Main content body (div.prose) not found.">>)

\* the extractor: the result of the call and the document it leaves behind
scrape_substack_article(s) ==
    LET ld == substack_ld(s)
        author1 == IF ld.author = AuthorDefault /\ HasContent(s.meta_author)
                   THEN PyStr(strip(s.meta_author.content)) ELSE ld.author
        publication1 == IF ld.publication = PublicationDefault /\ HasContent(s.og_site_name)
                        THEN PyStr(strip(s.og_site_name.content)) ELSE ld.publication
        date1 == IF ~Truthy(ld.publication_date) /\ HasContent(s.published_time)
                 THEN PyStr(Head(split(s.published_time.content, TEE))) ELSE ld.publication_date
        author == IF s.byline.present THEN PyStr(get_text_strip(s.byline.texts)) ELSE author1
        publication == IF s.pub.present THEN PyStr(get_text_strip(s.pub.texts)) ELSE publication1
        publication_date == IF s.date_container.present
                            THEN PyStr(get_text_strip(s.date_container.texts)) ELSE date1
        title == IF s.post_title.present THEN PyStr(get_text_strip(s.post_title.texts)) ELSE TitleDefault
        subtitle == IF s.subtitle.present THEN PyStr(get_text_strip(s.subtitle.texts)) ELSE PyNone
    IN  IF ~s.body.present
        THEN [result |-> Raise(ParseFailure(SubstackErrorPlatform, BodyNotFound)), soup |-> s]
        ELSE LET s2 == decompose_clutter(s)
                 full_text == join_blocks(text_blocks(s2.body.blocks, SubstackBlockTags))
             IN  [result |-> Return(article_data(publication, title, subtitle, author,
                                                 publication_date, full_text, s2)),
                  soup |-> s2]

----------------------------------------------------------------------------
(* _scrape_beehiiv_article *)

\* lines 181-189: no try of its own, an exception leaves the function
beehiiv_ld(s) ==
    LET acc == [title |-> TitleDefault, author |-> AuthorDefault,
                publication |-> BeehiivPublicationDefault, publication_date |-> PyNone]
    IN  IF ~s.script.present THEN Return(acc)
        ELSE LET r == json_loads(s.script.string)
             IN  IF r.raised THEN r
                 ELSE IF r.value.k # "dict" THEN Raise(NoGetError)
                 ELSE LET j == r.value
                          a == DictGet(j, "author", PyNone)
                          p == DictGet(j, "publisher", PyDict(EmptyMap))
                          d == DictGet(j, "datePublished", acc.publication_date)
                      IN  IF Truthy(a) /\ a.k = "list" /\ a.items[1].k # "dict" THEN Raise(NoGetError)
                          ELSE IF p.k # "dict" THEN Raise(NoGetError)
                          ELSE IF Truthy(d) /\ d.k # "str" THEN Raise(NoSplitError)
                          ELSE Return([title |-> DictGet(j, "headline", acc.title),
                                       author |-> IF Truthy(a) /\ a.k = "list"
                                                  THEN DictGet(a.items[1], "name", acc.author)
                                                  ELSE acc.author,
                                       publication |-> DictGet(p, "name", acc.publication),
                                       publication_date |-> IF Truthy(d) THEN PyStr(Head(split(d.s, TEE))) ELSE d])

IsH1(b) == b.tag = "h1"

\* soup.select_one('h1'): the first h1 of the document; the heading slots come
\* before the containers
select_one_h1(s) ==
    LET inBody == IF s.body.present THEN SelectSeq(s.body.blocks, IsH1) ELSE <<>>
        inProse == IF s.prose.present THEN SelectSeq(s.prose.blocks, IsH1) ELSE <<>>
        found == (IF s.h1.present THEN <<s.h1>> ELSE <<>>)
                 \o (IF s.post_title.present THEN <<s.post_title>> ELSE <<>>)
                 \o inBody \o inProse
    IN  IF found = <<>> THEN NoTag ELSE El(Head(found).texts, Head(found).clutter)

scrape_beehiiv_article(s) ==
    LET ld == beehiiv_ld(s)
        title_element == select_one_h1(s)
    IN  IF ld.raised
        THEN [result |-> Raise(ParseFailure(BeehiivErrorPlatform, ld.exc)), soup |-> s]
        ELSE IF ~s.prose.present
        THEN [result |-> Raise(ParseFailure(BeehiivErrorPlatform, ProseNotFound)), soup |-> s]
        ELSE LET title == IF title_element.present
                          THEN PyStr(get_text_strip(title_element.texts)) ELSE ld.value.title
                 author == IF s.author_link.present
                           THEN PyStr(get_text_strip(s.author_link.texts)) ELSE ld.value.author
                 full_text == join_blocks(text_blocks(s.prose.blocks, BeehiivBlockTags))
             IN  [result |-> Return(article_data(ld.value.publication, title, PyNone, author,
                                                 ld.value.publication_date, full_text, s)),
                  soup |-> s]

----------------------------------------------------------------------------
(* The documents the extractors are run on *)

BlankDoc ==
    [script |-> NoTag, meta_author |-> NoTag, og_site_name |-> NoTag, published_time |-> NoTag,
     byline |-> NoTag, pub |-> NoTag, date_container |-> NoTag, post_title |-> NoTag,
     subtitle |-> NoTag, body |-> NoTag,
     keywords |-> NoTag, canonical |-> NoTag, og_url |-> NoTag, category |-> NoTag,
     h1 |-> NoTag, author_link |-> NoTag, prose |-> NoTag]

Timestamp == <<"2024-03-01", TEE, "12:00:00Z">>

Absent == EmptyMap
Named(v) == PyDict(Entry("name", v))
NewsArticle(author, publisher, date) ==
    PyDict(Merge(Merge(Merge(Entry("@type", PyStr(<<"NewsArticle">>)), author), publisher), date))
Graph(items) == Script(JsonText(PyDict(Entry("@graph", PyList(items)))))

JaneDoe == Entry("author", Named(PyStr(<<"Jane Doe">>)))
AcmeWeekly == Entry("publisher", Named(PyStr(<<"Acme Weekly">>)))
Published == Entry("datePublished", PyStr(Timestamp))

\* structured-data blocks that parse to the shape the code expects
SubstackGoodScripts ==
    { Graph(<<NewsArticle(JaneDoe, AcmeWeekly, Published)>>),
      Graph(<<PyDict(Entry("@type", PyStr(<<"WebSite">>))), NewsArticle(JaneDoe, Absent, Absent)>>),
      Graph(<<NewsArticle(Entry("author", Named(PyNone)), Entry("publisher", Named(PyStr(<<>>))),
                          Entry("datePublished", PyStr(<<"2024-03-01">>)))>>) }

\* unparseable text, or a parsed value of an unexpected shape
SubstackMalformedScripts ==
    { Script(NoString),
      Script(InvalidJson),
      Script(JsonText(PyList(<<>>))),
      Graph(<<PyStr(<<"NewsArticle">>)>>),
      Graph(<<NewsArticle(Entry("author", PyStr(<<"Jane Doe">>)), AcmeWeekly, Published)>>),
      Graph(<<NewsArticle(JaneDoe, Entry("publisher", PyStr(<<"Acme Weekly">>)), Published)>>),
      Graph(<<NewsArticle(JaneDoe, AcmeWeekly, Entry("datePublished", PyInt(20240301)))>>) }

SubstackScripts == {NoTag} \cup SubstackGoodScripts \cup SubstackMalformedScripts

Article(fields) == Script(JsonText(PyDict(fields)))
Headline == Entry("headline", PyStr(<<"Headline">>))
Authors == Entry("author", PyList(<<PyDict(Entry("name", PyStr(<<"Jane Doe">>)))>>))

BeehiivGoodScripts ==
    { Article(Merge(Merge(Merge(Headline, Authors), AcmeWeekly), Published)),
      Article(Merge(Entry("headline", PyNone), Entry("author", PyList(<<PyDict(Entry("name", PyStr(<<>>)))>>)))),
      Article(Merge(Entry("author", PyDict(Entry("name", PyStr(<<"Jane Doe">>)))),
                    Entry("datePublished", PyStr(<<"2024-03-01">>)))) }

BeehiivMalformedScripts ==
    { Script(NoString),
      Script(InvalidJson),
      Script(JsonText(PyList(<<>>))),
      Article(Merge(Headline, Entry("author", PyList(<<PyStr(<<"Jane Doe">>)>>)))),
      Article(Merge(Headline, Entry("publisher", PyStr(<<"Acme Weekly">>)))),
      Article(Merge(Headline, Entry("datePublished", PyInt(20240301)))) }

BeehiivScripts == {NoTag} \cup BeehiivGoodScripts \cup BeehiivMalformedScripts

MetaAuthors == {NoTag, Meta(<<SP, "Meta Author", SP>>), Meta(<<SP>>)}
SiteNames == {NoTag, Meta(<<"Site Name">>)}
PublishedTimes == {NoTag, Meta(<<"2024-02-02", TEE, "08:00:00Z">>)}
Bylines == {NoTag, El(<< <<SP, "Bob Byline", NL>> >>, FALSE), El(<<>>, FALSE), El(<< <<"Bob Byline">> >>, TRUE)}
PubLinks == {NoTag, El(<< <<"Byline Weekly">> >>, FALSE)}
DateContainers == {NoTag, El(<< <<"Mar 1, 2024">> >>, FALSE), El(<< Timestamp >>, TRUE)}
PostTitles == {NoTag, El(<< <<"Post Title">> >>, FALSE), El(<< <<"Post Title">> >>, TRUE)}
Subtitles == {NoTag, El(<< <<"Subtitle">> >>, TRUE)}

Hello == Block("p", << <<"Hello.">> >>, FALSE)
World == Block("p", << <<"World.">> >>, FALSE)
Bodies == {NoTag, Container(<<>>), Container(<<Hello, Block("p", << <<"Subscribe">> >>, TRUE), World>>)}

Headings == {NoTag, El(<< <<"Big News">> >>, FALSE), El(<< <<SP>> >>, FALSE)}
AuthorLinks == {NoTag, El(<< <<"J. Smith">> >>, FALSE), El(<<>>, FALSE)}
Proses == {NoTag, Container(<<>>),
           Container(<<Block("h1", << <<"Inner Heading">> >>, FALSE), Block("li", << <<"Item one">> >>, FALSE)>>)}

\* the tags extract_extra_metadata reads: keywords, canonical, og:url, category
ExtraMetas ==
    { [keywords |-> NoTag, canonical |-> NoTag, og_url |-> NoTag, category |-> NoTag],
      [keywords |-> Meta(<<"AI", COMMA, SP, "Startups", COMMA, SP, SP>>), canonical |-> NoTag,
       og_url |-> Meta(<<"https://og.example/p">>), category |-> NoTag] }

WithExtra(d, x) ==
    [d EXCEPT !.keywords = x.keywords, !.canonical = x.canonical, !.og_url = x.og_url,
              !.category = x.category]

\* the documents of a platform: every combination of the slots its extractor reads
DocsOf(p) ==
    IF p = "substack"
    THEN { WithExtra([BlankDoc EXCEPT !.script = sc, !.meta_author = ma, !.og_site_name = og,
                                      !.published_time = pt, !.byline = by, !.pub = pb,
                                      !.date_container = dc, !.post_title = ti, !.subtitle = su,
                                      !.body = bo], x) :
             sc \in SubstackScripts, ma \in MetaAuthors, og \in SiteNames, pt \in PublishedTimes,
             by \in Bylines, pb \in PubLinks, dc \in DateContainers, ti \in PostTitles,
             su \in Subtitles, bo \in Bodies, x \in ExtraMetas }
    ELSE { WithExtra([BlankDoc EXCEPT !.script = sc, !.h1 = h, !.author_link = al, !.prose = pr], x) :
             sc \in BeehiivScripts, h \in Headings, al \in AuthorLinks, pr \in Proses, x \in ExtraMetas }

----------------------------------------------------------------------------
(* The extractors as a state machine: a parsed document, and the calls     *)
(* made on it.  Each call is logged with the document it was given.        *)

MaxCalls == 2

NoResponse == [status |-> 0]

ApiIdle ==
    /\ urls = <<>> /\ summarize = FALSE /\ idx = 0 /\ results = <<>> /\ fetches = <<>>
    /\ batch_response = NoResponse /\ url = <<>> /\ response = NoResponse

ApiUnchanged == UNCHANGED <<urls, summarize, idx, results, fetches, batch_response, url, response>>

Init ==
    /\ platform \in {"substack", "beehiiv"}
    /\ soup \in DocsOf(platform)
    /\ calls = <<>>
    /\ ApiIdle

ScrapeSubstack ==
    /\ platform = "substack"
    /\ Len(calls) < MaxCalls
    /\ LET r == scrape_substack_article(soup)
       IN  /\ calls' = Append(calls, [soup |-> soup, result |-> r.result])
           /\ soup' = r.soup
    /\ UNCHANGED platform
    /\ ApiUnchanged

ScrapeBeehiiv ==
    /\ platform = "beehiiv"
    /\ Len(calls) < MaxCalls
    /\ LET r == scrape_beehiiv_article(soup)
       IN  /\ calls' = Append(calls, [soup |-> soup, result |-> r.result])
           /\ soup' = r.soup
    /\ UNCHANGED platform
    /\ ApiUnchanged

Next == ScrapeSubstack \/ ScrapeBeehiiv

Spec == Init /\ [][Next]_vars

----------------------------------------------------------------------------
(* The body text: documents that differ in the blocks of their container   *)

MaxBlocks == 2

BlockTexts ==
    { <<>>,
      << <<SP, NL>> >>,
      << <<"a">> >>,
      << <<SP, "a", NL>> >>,
      << <<"a", NL, "b">> >>,
      << <<NL, "a", NL, NL, "b", SP>> >>,
      << <<"a", SP>>, <<NL, "b">> >>,
      << <<NL>>, <<AMP_ENTITY, "a">> >> }

BodyBlocks == { Block(tag, texts, clutter) : tag \in {"p", "h2"}, texts \in BlockTexts, clutter \in BOOLEAN }

BlockSeqs == UNION { [1..n -> BodyBlocks] : n \in 0..MaxBlocks }

BodyDocsOf(p) ==
    IF p = "substack"
    THEN { [BlankDoc EXCEPT !.body = Container(blocks)] : blocks \in BlockSeqs }
    ELSE { [BlankDoc EXCEPT !.prose = Container(blocks)] : blocks \in BlockSeqs }

InitBody ==
    /\ platform \in {"substack", "beehiiv"}
    /\ soup \in BodyDocsOf(platform)
    /\ calls = <<>>
    /\ ApiIdle

SpecBody == InitBody /\ [][Next]_vars

----------------------------------------------------------------------------
(* The endpoints.  A URL is its scheme, the tokens of its host and its     *)
(* path; "substack.com" and "beehiiv.com" are tokens of the host alphabet, *)
(* so that the substring test of lines 229-231 is a test for a token.      *)

UrlSubstack == <<"https://", "example.", "substack.com", "/p/article-1">>
UrlBeehiiv == <<"https://", "another.", "beehiiv.com", "/p/article-2">>
UrlOther == <<"https://", "example.com", "/p/article-3">>
UrlBoth == <<"https://", "beehiiv.com", ".", "substack.com", "/p/article-4">>

\* urlparse(url).netloc
netloc(u) == SubSeq(u, 2, Len(u) - 1)

\* needle in domain
Contains(domain, needle) == \E i \in DOMAIN domain : domain[i] = needle

\* requests.get(...) followed by raise_for_status(): a RequestException, or
\* the page, parsed
FetchFailed == [ok |-> FALSE, exc |-> Exc("RequestException", <<"Connection refused">>)]
Fetched(doc) == [ok |-> TRUE, soup |-> doc]

UnsupportedValueError == Exc("ValueError", <<"Unsupported platform.">>)
UnsupportedHTTPException == [type |-> "HTTPException", status_code |-> 400, msg |-> <<"Unsupported platform.">>]

\* summarize_text_with_huggingface: no chunk for the empty text; otherwise the
\* joined replies of the service (a summary, or the placeholder of line 48)
summarize_text_with_huggingface(text, reply) == IF text = <<>> THEN <<>> ELSE reply

Summaries == { <<"Summary.">>, <<"[Chunk summarization failed: ", "timeout", "]">> }
RepliesFor(flag) == IF flag THEN Summaries ELSE { <<>> }

\* lines 229-234 and 257-262: the extractor the host selects
scrape_by_domain(u, doc, unsupported) ==
    IF Contains(netloc(u), "substack.com") THEN scrape_substack_article(doc).result
    ELSE IF Contains(netloc(u), "beehiiv.com") THEN scrape_beehiiv_article(doc).result
    ELSE Raise(unsupported)

\* lines 235-239 and 263-267: summary, prompt templates, article_url
finish_data(u, data, flag, reply) ==
    LET data1 == IF flag
                 THEN Merge(data, Entry("summary", PyStr(summarize_text_with_huggingface(data["full_text"].s, reply))))
                 ELSE data
        data2 == Merge(data1, Entry("prompt_templates", generate_prompt_templates(data1)))
    IN  Merge(Entry("article_url", PyStr(u)), data2)

\* lines 253-267: the body of the try of one iteration
batch_try(u, outcome, flag, reply) ==
    IF ~outcome.ok THEN Raise(outcome.exc)
    ELSE LET r == scrape_by_domain(u, outcome.soup, UnsupportedValueError)
         IN  IF r.raised THEN r ELSE Return(finish_data(u, r.value, flag, reply))

\* batch_append with an except clause that records nothing for the failed item
batch_append_drop_failed(res, u, r) ==
    IF r.raised THEN res ELSE Append(res, r.value)

\* lines 267-269: what one iteration appends to results
batch_append(res, u, r) ==
    IF r.raised
    THEN Append(res, [article_url |-> PyStr(u), error |-> PyStr(r.exc.msg)])
    ELSE Append(res, r.value)

MaxUrls == 3

BatchUrls == {UrlSubstack, UrlBeehiiv, UrlOther}

GoodSubstack ==
    [BlankDoc EXCEPT !.script = Graph(<<NewsArticle(JaneDoe, AcmeWeekly, Published)>>),
                     !.post_title = El(<< <<"Post Title">> >>, FALSE),
                     !.body = Container(<<Hello, World>>)]
GoodBeehiiv ==
    [BlankDoc EXCEPT !.h1 = El(<< <<"Big News">> >>, FALSE),
                     !.author_link = El(<< <<"J. Smith">> >>, FALSE),
                     !.prose = Container(<<Block("li", << <<"Item one">> >>, FALSE)>>)]
MalformedBeehiiv == [GoodBeehiiv EXCEPT !.script = Script(InvalidJson)]

BatchOutcomes == {FetchFailed, Fetched(GoodSubstack), Fetched(GoodBeehiiv), Fetched(MalformedBeehiiv)}

InitBatch ==
    /\ platform = "none" /\ soup = BlankDoc /\ calls = <<>>
    /\ urls \in UNION { [1..n -> BatchUrls] : n \in 0..MaxUrls }
    /\ summarize \in BOOLEAN
    /\ idx = 0 /\ results = <<>> /\ fetches = <<>>
    /\ batch_response = NoResponse
    /\ url = <<>> /\ response = NoResponse

\* one iteration of the loop of line 251
BatchIteration ==
    /\ batch_response = NoResponse
    /\ idx < Len(urls)
    /\ \E outcome \in BatchOutcomes :
         \E reply \in RepliesFor(summarize /\ outcome.ok) :
            /\ results' = batch_append(results, urls[idx + 1], batch_try(urls[idx + 1], outcome, summarize, reply))
            /\ fetches' = Append(fetches, outcome)
    /\ idx' = idx + 1
    /\ UNCHANGED <<platform, soup, calls, urls, summarize, batch_response, url, response>>

\* line 270
BatchReturn ==
    /\ batch_response = NoResponse
    /\ idx = Len(urls)
    /\ batch_response' = [status |-> 200, success |-> TRUE, results |-> results]
    /\ UNCHANGED <<platform, soup, calls, urls, summarize, idx, results, fetches, url, response>>

NextBatch == BatchIteration \/ BatchReturn

SpecBatch == InitBatch /\ [][NextBatch]_vars

----------------------------------------------------------------------------
(* get_article_content *)

\* lines 225-239: the body of the try
single_try(u, outcome, flag, reply) ==
    IF ~outcome.ok THEN Raise(outcome.exc)
    ELSE LET r == scrape_by_domain(u, outcome.soup, UnsupportedHTTPException)
         IN  IF r.raised THEN r
             ELSE Return(Merge(Entry("success", [k |-> "bool", b |-> TRUE]), finish_data(u, r.value, flag, reply)))

\* str(e) of the exception an except clause caught
ExcStr(e) == IF e.type = "HTTPException" THEN Digits(e.status_code) \o <<": ">> \o e.msg ELSE e.msg

\* lines 240-245: the except clauses, in order
single_except(e) ==
    IF e.type = "RequestException"
    THEN [status |-> 502, detail |-> <<"Failed to fetch the URL: ">> \o ExcStr(e)]
    ELSE IF e.type = "ValueError"
    THEN [status |-> 500, detail |-> ExcStr(e)]
    ELSE [status |-> 500, detail |-> <<"An unexpected error occurred: ">> \o ExcStr(e)]

SingleUrls == {UrlSubstack, UrlBeehiiv, UrlOther, UrlBoth}

SingleOutcomes == {FetchFailed} \cup { Fetched(d) : d \in {GoodSubstack} \cup DocsOf("beehiiv") }

InitSingle ==
    /\ platform = "none" /\ soup = BlankDoc /\ calls = <<>>
    /\ urls = <<>> /\ idx = 0 /\ results = <<>> /\ fetches = <<>>
    /\ batch_response = NoResponse
    /\ url \in SingleUrls
    /\ summarize \in BOOLEAN
    /\ response = NoResponse

GetArticleContent ==
    /\ response = NoResponse
    /\ \E outcome \in SingleOutcomes :
         \E reply \in RepliesFor(summarize /\ outcome.ok) :
            LET r == single_try(url, outcome, summarize, reply)
            IN  /\ response' = IF r.raised THEN single_except(r.exc)
                               ELSE [status |-> 200, body |-> r.value]
                /\ fetches' = <<outcome>>
    /\ UNCHANGED <<platform, soup, calls, urls, summarize, idx, results, batch_response, url>>

NextSingle == GetArticleContent

SpecSingle == InitSingle /\ [][NextSingle]_vars

----------------------------------------------------------------------------
(* Properties *)

Returned(c) == ~c.result.raised
Extract(s) == IF platform = "substack" THEN scrape_substack_article(s) ELSE scrape_beehiiv_article(s)
ContainerAbsent(s) == IF platform = "substack" THEN ~s.body.present ELSE ~s.prose.present
IsContentNotFound(e) ==
    \E name \in {"Substack", "Beehiiv"} :
        e \in {ParseFailure(name, BodyNotFound), ParseFailure(name, ProseNotFound)}
Malformed(s) == s.script \in SubstackMalformedScripts \cup BeehiivMalformedScripts
NonBlank(v) == v.k = "str" /\ strip(v.s) # <<>>

\* C1: a call on a document without the platform's body container never
\* returns a record; it fails with the content-not-found error, whatever else
\* the document holds.
C1_MissingBodyIsContentNotFound ==
    \A i \in DOMAIN calls :
        ContainerAbsent(calls[i].soup) =>
            /\ calls[i].result.raised
            /\ IsContentNotFound(calls[i].result.exc)

\* C2: when the structured-data block yields a non-empty value for a field
\* and the lower-priority HTML element of that field is present as well, the
\* returned record carries the structured-data value.
C2_StructuredDataWins ==
    \A i \in DOMAIN calls :
        Returned(calls[i]) =>
            LET s == calls[i].soup
                data == calls[i].result.value
            IN  IF platform = "substack"
                THEN LET ld == substack_ld(s)
                     IN  /\ (NonBlank(ld.author) /\ ld.author # AuthorDefault /\ s.byline.present)
                                => data["author"] = ld.author
                         /\ (NonBlank(ld.publication) /\ ld.publication # PublicationDefault /\ s.pub.present)
                                => data["publication_name"] = ld.publication
                         /\ (NonBlank(ld.publication_date) /\ s.date_container.present)
                                => data["publication_date"] = ld.publication_date
                ELSE LET ld == beehiiv_ld(s).value
                     IN  /\ (NonBlank(ld.title) /\ ld.title # TitleDefault /\ select_one_h1(s).present)
                                => data["article_title"] = ld.title
                         /\ (NonBlank(ld.author) /\ ld.author # AuthorDefault /\ s.author_link.present)
                                => data["author"] = ld.author

\* C3: a malformed structured-data block is never fatal: with the body
\* container present the call returns a record, the one the same document
\* gives with the block removed.
C3_MalformedStructuredDataIsAbsent ==
    \A i \in DOMAIN calls :
        (Malformed(calls[i].soup) /\ ~ContainerAbsent(calls[i].soup)) =>
            /\ Returned(calls[i])
            /\ calls[i].result = Extract([calls[i].soup EXCEPT !.script = NoTag]).result

\* C5: two calls in sequence on the same parsed document give the same result.
C5_SecondCallAgrees ==
    \A i, j \in DOMAIN calls : calls[i].result = calls[j].result

\* C6: the publication_date of a returned record is null or a string without
\* a 'T' (the date part of the timestamp), whichever strategy supplied it.
C6_DateOnly ==
    \A i \in DOMAIN calls :
        Returned(calls[i]) =>
            LET d == calls[i].result.value["publication_date"]
            IN  \/ d = PyNone
                \/ d.k = "str" /\ ~Contains(d.s, TEE)

\* C7: author, publication_name and article_title of a returned record are
\* strings that are neither empty nor whitespace-only.
C7_NamesNonBlank ==
    \A i \in DOMAIN calls :
        Returned(calls[i]) =>
            \A key \in {"author", "publication_name", "article_title"} :
                NonBlank(calls[i].result.value[key])

\* C9: the error of a failed call names the platform whose extractor ran, and
\* a content-not-found error is raised only for a missing body container.
C9_ErrorNamesPlatform ==
    \A i \in DOMAIN calls :
        calls[i].result.raised =>
            /\ Contains(calls[i].result.exc.msg, IF platform = "substack" THEN "Substack" ELSE "Beehiiv")
            /\ IsContentNotFound(calls[i].result.exc) => ContainerAbsent(calls[i].soup)

\* the blocks that reach full_text: of a selected tag, not removed as clutter,
\* with a character that is not whitespace
Survives(b) ==
    /\ b.tag \in (IF platform = "substack" THEN SubstackBlockTags ELSE BeehiivBlockTags)
    /\ platform = "substack" => ~b.clutter
    /\ \E n \in DOMAIN b.texts : \E j \in DOMAIN b.texts[n] : ~IsSpace(b.texts[n][j])
BlocksOf(s) == IF platform = "substack" THEN s.body.blocks ELSE s.prose.blocks
Survivors(s) == Cardinality({ n \in DOMAIN BlocksOf(s) : Survives(BlocksOf(s)[n]) })

\* C8: full_text is the surviving blocks joined by exactly one double
\* newline: split at the newlines it is block, empty, block, ..., block, one
\* block for each surviving element, no block empty or whitespace-only; it
\* is empty when no block survives.
C8_FullTextShape ==
    \A i \in DOMAIN calls :
        Returned(calls[i]) =>
            LET text == calls[i].result.value["full_text"].s
                parts == split(text, NL)
                n == Survivors(calls[i].soup)
            IN  IF n = 0 THEN text = <<>>
                ELSE /\ Len(parts) = 2 * n - 1
                     /\ \A m \in DOMAIN parts :
                            IF m % 2 = 1 THEN strip(parts[m]) # <<>> /\ strip(parts[m]) = parts[m]
                            ELSE parts[m] = <<>>

\* C8 witness: a record whose full_text joins two blocks, one of them from an
\* element whose text had a newline inside
C8_Witness ==
    \E i \in DOMAIN calls :
        /\ Returned(calls[i])
        /\ Survivors(calls[i].soup) >= 2
        /\ \E n \in DOMAIN BlocksOf(calls[i].soup) :
              /\ Survives(BlocksOf(calls[i].soup)[n])
              /\ Contains(get_text_strip(BlocksOf(calls[i].soup)[n].texts), NL)

ItemFails(u, outcome) == ~outcome.ok \/ scrape_by_domain(u, outcome.soup, UnsupportedValueError).raised

\* C4: the results hold one entry for each URL processed, in input order,
\* entry i with article_url = urls[i]; the entry of a failed item has only
\* article_url and error; the entry of a successful item carries the record
\* the extractor gives for that item's page alone; the response returns them
\* all, one for each URL of the request.
C4_BatchIsolation ==
    /\ Len(results) = idx
    /\ Len(fetches) = idx
    /\ \A i \in DOMAIN results :
          /\ results[i]["article_url"] = PyStr(urls[i])
          /\ IF ItemFails(urls[i], fetches[i])
             THEN DOMAIN results[i] = {"article_url", "error"}
             ELSE LET rec == scrape_by_domain(urls[i], fetches[i].soup, UnsupportedValueError).value
                  IN  /\ DOMAIN results[i] = DOMAIN rec \cup {"article_url"}
                                             \cup (IF summarize THEN {"summary"} ELSE {})
                      /\ \A key \in DOMAIN rec : results[i][key] = rec[key]
    /\ batch_response # NoResponse =>
          /\ batch_response.status = 200
          /\ batch_response.results = results
          /\ Len(batch_response.results) = Len(urls)

\* C4 witness: a finished batch of three URLs, the second failed at the
\* fetch, the first and the third with full records
C4_Witness ==
    /\ batch_response # NoResponse
    /\ Len(urls) >= 3
    /\ ~fetches[2].ok
    /\ ~ItemFails(urls[1], fetches[1])
    /\ ~ItemFails(urls[3], fetches[3])

\* C10: the single-article endpoint answers a fetched URL of an unsupported
\* host with 400 and the detail "Unsupported platform.", a failed fetch with
\* 502 and a failed extraction with 500.
C10_SingleStatuses ==
    response # NoResponse =>
        LET outcome == fetches[1]
        IN  IF ~outcome.ok THEN response.status = 502
            ELSE IF ~Contains(netloc(url), "substack.com") /\ ~Contains(netloc(url), "beehiiv.com")
            THEN response.status = 400 /\ response.detail = <<"Unsupported platform.">>
            ELSE scrape_by_domain(url, outcome.soup, UnsupportedHTTPException).raised
                    => response.status = 500

====
